---------------------------- MODULE Spec2Model ----------------------------
(***************************************************************************)
(* Verification model of the topology Forwarder                            *)
(* (graffiti/forwarder/forwarder.go) and of the lease election declared in *)
(* graffiti/etcd/client/client.go.                                         *)
(*                                                                         *)
(* The Forwarder runs between two collaborators whose code lives in other  *)
(* packages (graffiti/graph and graffiti/websocket): the graph with its    *)
(* read/write lock and its list of event listeners, and the master         *)
(* election that knows the current master and calls OnNewMaster.  Those    *)
(* are modelled from the design document; the Forwarder's own methods are  *)
(* translated statement by statement.                                      *)
(***************************************************************************)
EXTENDS Integers, Sequences, FiniteSets, TLC

\* ------------------------------------------------------------------ bounds
\* Number of graph mutations explored.
MaxMutations == 2
\* Number of OnNewMaster calls with a non-nil speaker explored.
MaxMasterChanges == 2

\* ------------------------------------------------------------ vocabulary
Nil == "nil"
Peers == {"P", "Q"}

NodeIds == {"n1", "n2"}
EdgeIds == {"e1"}
Ids == NodeIds \cup EdgeIds
\* The one edge of the model links n1 to n2.
Parent(e) == "n1"
Child(e) == "n2"

\* Partial-update operation lists a mutation may carry (order is significant).
OpsChoices == { <<"Add">>, <<"Del", "Add">> }

\* messages.*MsgType tags
SyncMsgType == "SyncMsg"
NodeAddedMsgType == "NodeAdded"
NodeDeletedMsgType == "NodeDeleted"
NodePartiallyUpdatedMsgType == "NodePartiallyUpdated"
EdgeAddedMsgType == "EdgeAdded"
EdgeDeletedMsgType == "EdgeDeleted"
EdgePartiallyUpdatedMsgType == "EdgePartiallyUpdated"
DeltaTypes == {NodeAddedMsgType, NodeDeletedMsgType, NodePartiallyUpdatedMsgType,
               EdgeAddedMsgType, EdgeDeletedMsgType, EdgePartiallyUpdatedMsgType}

VARIABLES
    \* --- graph (graffiti/graph)
    graph,      \* [Ids -> [st, rev, at]]: st is "absent", "present" or "deleted"
    now,        \* the graph's logical time: number of mutations applied so far
    rlock,      \* number of holders of the graph's read lock
    listeners,  \* how many times the Forwarder is in the graph's listener list
    \* --- master election (graffiti/websocket)
    master,     \* masterElection.master: a peer, or Nil
    handlers,   \* how many times the Forwarder is in masterElection's handler list
    \* --- the thread delivering master changes, inside Forwarder.OnNewMaster
    pc,         \* "idle", "entry", "rlocked", "resynced", "listening", "removed", "exited"
    arg,        \* the speaker c passed to the running OnNewMaster call
    exitCode,   \* the status passed to os.Exit, or -1 while the process runs
    \* --- the message channel
    sent,       \* every message handed to a speaker, in order: [to, type, payload]
    \* --- history
    changes,    \* number of OnNewMaster calls with a non-nil speaker so far
    epochStart, \* Len(sent) when the election last changed master
    snapClock,  \* value of now when graph.Elements() was last captured
    lastEv,     \* the graph event last delivered to the Forwarder: [kind, id, ops]
    gotMaster,  \* what the last Forwarder.GetMaster() call returned
    \* --- lease election on one ElectionKey (MasterElection)
    eclock,     \* time, in ticks
    lease,      \* the key in the coordination store: [owner, expires]
    role,       \* per contender: "unset", "Master" or "Slave"
    running,    \* per contender: "new", "started" or "stopped"
    reachable,  \* per contender: whether it can reach the coordination store
    nextTry,    \* per contender: the time of its next acquire/renew attempt
    since,      \* time of the last change of reachability, Start or Stop
    everMaster, \* per contender: whether it has been Master before
    inflight,   \* per contender: the store's answer its attempt has not handled yet
    cbs,        \* per contender and listener: the callbacks received, in order
    stops,      \* per contender: whether Stop() was called again after it stopped
    faults,     \* number of connection losses so far
    \* --- the etcd client (graffiti/etcd/client)
    storeUp,    \* whether KeysAPI requests reach the store and are answered
    kv,         \* the store: key -> value (a string), or NoKey
    cpc,        \* Client.Start: "init", "loop", "sleep" or "returned"
    unix,       \* time.Now().Unix()
    op,         \* the client-side step taken last
    requests,   \* KeysAPI requests made by the last GetInt64 or SetInt64 call
    got,        \* what the last GetInt64 call returned: [key, val, err]
    accepted    \* whether the store has accepted the write made by Start

fvars == <<graph, now, rlock, listeners, master, handlers, pc, arg, exitCode,
           sent, changes, epochStart, snapClock, lastEv, gotMaster>>
evars == <<eclock, lease, role, running, reachable, nextTry, since, everMaster,
           inflight, cbs, stops, faults>>
cvars == <<storeUp, kv, cpc, unix, op, requests, got, accepted>>
vars == <<fvars, evars, cvars>>

\* ------------------------------------------------------------------ graph
Absent == [st |-> "absent", rev |-> 0, at |-> 0]

\* A graph element as the listeners and the messages see it.
Node(g, i) == [ID |-> i, Revision |-> g[i].rev, UpdatedAt |-> g[i].at]
Edge(g, i) == [ID |-> i, Revision |-> g[i].rev, UpdatedAt |-> g[i].at,
               Parent |-> Parent(i), Child |-> Child(i)]

Present(g) == {i \in Ids : g[i].st = "present"}

\* graph.Elements(): every node and every edge currently in the graph.
Elements(g) ==
    [Nodes |-> {Node(g, i) : i \in Present(g) \cap NodeIds},
     Edges |-> {Edge(g, i) : i \in Present(g) \cap EdgeIds}]

\* graph.AddEventListener appends to the listener list (no de-duplication);
\* graph.RemoveEventListener removes one occurrence, if any.
AddEventListener(n) == n + 1
RemoveEventListener(n) == IF n > 0 THEN n - 1 ELSE 0

\* ------------------------------------------------------- master election
\* masterElection.SendMessageToMaster: hand the message to the current
\* master's speaker; with no master nothing is sent.
SendMessageToMaster(log, m) ==
    IF master = Nil THEN log
    ELSE Append(log, [to |-> master, type |-> m.type, payload |-> m.payload])

NewStructMessage(type, payload) == [type |-> type, payload |-> payload]

\* -------------------------------------------------------------- Forwarder
\* NewForwarder as it would be if it also subscribed to the graph.
NewForwarder_Listening == [graphListeners |-> 1, electionHandlers |-> 1]

\* NewForwarder: registers with the election only; the graph is not touched.
NewForwarder == [graphListeners |-> 0, electionHandlers |-> 1]

\* triggerResync as it would be if the snapshot left the edges out.
triggerResync_NodesOnly(log) ==
    SendMessageToMaster(log,
        NewStructMessage(SyncMsgType,
            [Elements |-> [Nodes |-> Elements(graph).Nodes, Edges |-> {}]]))

\* triggerResync as it would be if it sent only what changed since the
\* snapshot before.
triggerResync_Incremental(log) ==
    SendMessageToMaster(log,
        NewStructMessage(SyncMsgType,
            [Elements |->
                [Nodes |-> {n \in Elements(graph).Nodes :
                               changes < 2 \/ n.UpdatedAt > snapClock},
                 Edges |-> {e \in Elements(graph).Edges :
                               changes < 2 \/ e.UpdatedAt > snapClock}]]))

\* Forwarder.triggerResync
triggerResync(log) ==
    SendMessageToMaster(log,
        NewStructMessage(SyncMsgType, [Elements |-> Elements(graph)]))

\* Forwarder.OnNodeUpdated
OnNodeUpdated(log, n, ops) ==
    SendMessageToMaster(log,
        NewStructMessage(NodePartiallyUpdatedMsgType,
            [ID |-> n.ID, UpdatedAt |-> n.UpdatedAt, Revision |-> n.Revision,
             Ops |-> ops]))

\* Forwarder.OnNodeAdded
OnNodeAdded(log, n) ==
    SendMessageToMaster(log, NewStructMessage(NodeAddedMsgType, n))

\* Forwarder.OnNodeDeleted
OnNodeDeleted(log, n) ==
    SendMessageToMaster(log, NewStructMessage(NodeDeletedMsgType, n))

\* OnEdgeUpdated as it would be if it announced the update as a node's.
OnEdgeUpdated_NodeType(log, e, ops) ==
    SendMessageToMaster(log,
        NewStructMessage(NodePartiallyUpdatedMsgType,
            [ID |-> e.ID, UpdatedAt |-> e.UpdatedAt, Revision |-> e.Revision,
             Ops |-> ops]))

\* Forwarder.OnEdgeUpdated
OnEdgeUpdated(log, e, ops) ==
    SendMessageToMaster(log,
        NewStructMessage(EdgePartiallyUpdatedMsgType,
            [ID |-> e.ID, UpdatedAt |-> e.UpdatedAt, Revision |-> e.Revision,
             Ops |-> ops]))

\* Forwarder.OnEdgeAdded
OnEdgeAdded(log, e) ==
    SendMessageToMaster(log, NewStructMessage(EdgeAddedMsgType, e))

\* Forwarder.OnEdgeDeleted
OnEdgeDeleted(log, e) ==
    SendMessageToMaster(log, NewStructMessage(EdgeDeletedMsgType, e))

\* The Forwarder's EventListener method for one graph event
\* ev = [kind, elem, ops].
Callback(log, ev) ==
    CASE ev.kind = "NodeAdded"   -> OnNodeAdded(log, ev.elem)
      [] ev.kind = "NodeUpdated" -> OnNodeUpdated(log, ev.elem, ev.ops)
      [] ev.kind = "NodeDeleted" -> OnNodeDeleted(log, ev.elem)
      [] ev.kind = "EdgeAdded"   -> OnEdgeAdded(log, ev.elem)
      [] ev.kind = "EdgeUpdated" -> OnEdgeUpdated(log, ev.elem, ev.ops)
      [] ev.kind = "EdgeDeleted" -> OnEdgeDeleted(log, ev.elem)

\* The graph calls every entry of its listener list, in order, from the
\* mutating thread; k is the number of entries that are the Forwarder.
RECURSIVE NotifyListeners(_, _, _)
NotifyListeners(k, log, ev) ==
    IF k = 0 THEN log ELSE NotifyListeners(k - 1, Callback(log, ev), ev)

\* ------------------------------------------------------ graph mutations
\* A mutation runs under the graph's write lock: it waits while a reader
\* holds the lock, bumps the element's Revision and UpdatedAt, and calls the
\* listeners before the lock is released.  i is the element, st its new
\* state, elem its value after the mutation.
Mutated(i, st) ==
    [graph EXCEPT ![i] = [st |-> st, rev |-> @.rev + 1, at |-> now + 1]]

GraphMutation(i, st, kind, ops) ==
    /\ pc # "exited"
    /\ rlock = 0
    /\ now < MaxMutations
    /\ now' = now + 1
    /\ graph' = Mutated(i, st)
    /\ sent' = NotifyListeners(listeners, sent,
                   [kind |-> kind,
                    elem |-> IF i \in NodeIds THEN Node(Mutated(i, st), i)
                                              ELSE Edge(Mutated(i, st), i),
                    ops |-> ops])
    /\ lastEv' = IF listeners > 0 THEN [kind |-> kind, id |-> i, ops |-> ops]
                                  ELSE lastEv
    /\ UNCHANGED <<rlock, listeners, master, handlers, pc, arg, exitCode,
                   changes, epochStart, snapClock, gotMaster>>
    /\ UNCHANGED <<evars, cvars>>

AddNode(i) ==
    /\ i \in NodeIds /\ graph[i].st = "absent"
    /\ GraphMutation(i, "present", "NodeAdded", <<>>)

UpdateNode(i, ops) ==
    /\ i \in NodeIds /\ graph[i].st = "present"
    /\ GraphMutation(i, "present", "NodeUpdated", ops)

\* A node is deleted once the edges attached to it are gone.
DelNode(i) ==
    /\ i \in NodeIds /\ graph[i].st = "present"
    /\ \A e \in EdgeIds : graph[e].st = "present" => i \notin {Parent(e), Child(e)}
    /\ GraphMutation(i, "deleted", "NodeDeleted", <<>>)

\* An edge is added between two nodes of the graph.
AddEdge(i) ==
    /\ i \in EdgeIds /\ graph[i].st = "absent"
    /\ graph[Parent(i)].st = "present" /\ graph[Child(i)].st = "present"
    /\ GraphMutation(i, "present", "EdgeAdded", <<>>)

UpdateEdge(i, ops) ==
    /\ i \in EdgeIds /\ graph[i].st = "present"
    /\ GraphMutation(i, "present", "EdgeUpdated", ops)

DelEdge(i) ==
    /\ i \in EdgeIds /\ graph[i].st = "present"
    /\ GraphMutation(i, "deleted", "EdgeDeleted", <<>>)

\* -------------------------------------------------- master change signal
\* The election selects a new master c (a peer, or Nil when none is
\* reachable), records it, and calls the registered handler's OnNewMaster(c)
\* on its own thread, one call at a time.
MasterChanged(c) ==
    /\ pc = "idle"
    /\ handlers > 0
    /\ c # master
    /\ c # Nil => changes < MaxMasterChanges
    /\ master' = c
    /\ arg' = c
    /\ pc' = "entry"
    /\ changes' = IF c = Nil THEN changes ELSE changes + 1
    /\ epochStart' = Len(sent)
    /\ UNCHANGED <<graph, now, rlock, listeners, handlers, exitCode, sent,
                   snapClock>>
    /\ UNCHANGED <<lastEv, gotMaster>>
    /\ UNCHANGED <<evars, cvars>>

\* Forwarder.GetMaster: the election's current master.
GetMaster ==
    /\ pc # "exited"
    /\ gotMaster' = master
    /\ UNCHANGED <<graph, now, rlock, listeners, master, handlers, pc, arg,
                   exitCode, sent, changes, epochStart, snapClock, lastEv>>
    /\ UNCHANGED <<evars, cvars>>

\* ------------------------------------------------- Forwarder.OnNewMaster
\* forwarder.go:54  t.graph.RemoveEventListener(t)     (c == nil)
OnNewMaster_RemoveEventListener ==
    /\ pc = "entry" /\ arg = Nil
    /\ listeners' = RemoveEventListener(listeners)
    /\ pc' = "removed"
    /\ UNCHANGED <<graph, now, rlock, master, handlers, arg, exitCode, sent,
                   changes, epochStart, snapClock>>
    /\ UNCHANGED <<lastEv, gotMaster>>
    /\ UNCHANGED <<evars, cvars>>

\* forwarder.go:56  os.Exit(1)
OnNewMaster_Exit ==
    /\ pc = "removed"
    /\ exitCode' = 1
    /\ pc' = "exited"
    /\ UNCHANGED <<graph, now, rlock, listeners, master, handlers, arg, sent,
                   changes, epochStart, snapClock>>
    /\ UNCHANGED <<lastEv, gotMaster>>
    /\ UNCHANGED <<evars, cvars>>

\* OnNewMaster as it would be if the resync ran without the graph lock.
OnNewMaster_NoLock ==
    /\ pc = "entry" /\ arg # Nil
    /\ pc' = "rlocked"
    /\ UNCHANGED <<graph, now, rlock, listeners, master, handlers, arg, exitCode,
                   sent, changes, epochStart, snapClock>>
    /\ UNCHANGED <<lastEv, gotMaster>>
    /\ UNCHANGED <<evars, cvars>>

\* forwarder.go:61  t.graph.RLock()                    (c != nil)
OnNewMaster_RLock ==
    /\ pc = "entry" /\ arg # Nil
    /\ rlock' = rlock + 1
    /\ pc' = "rlocked"
    /\ UNCHANGED <<graph, now, listeners, master, handlers, arg, exitCode, sent,
                   changes, epochStart, snapClock>>
    /\ UNCHANGED <<lastEv, gotMaster>>
    /\ UNCHANGED <<evars, cvars>>

\* The resync as it would be if it stamped the elements it sent.
OnNewMaster_triggerResync_Stamps ==
    /\ pc = "rlocked"
    /\ sent' = triggerResync(sent)
    /\ graph' = [i \in Ids |-> IF graph[i].st = "present"
                                  THEN [graph[i] EXCEPT !.at = now] ELSE graph[i]]
    /\ snapClock' = now
    /\ pc' = "resynced"
    /\ UNCHANGED <<now, rlock, listeners, master, handlers, arg, exitCode,
                   changes, epochStart>>
    /\ UNCHANGED <<lastEv, gotMaster>>
    /\ UNCHANGED <<evars, cvars>>

\* forwarder.go:63  t.triggerResync()
OnNewMaster_triggerResync ==
    /\ pc = "rlocked"
    /\ sent' = triggerResync(sent)
    /\ snapClock' = now
    /\ pc' = "resynced"
    /\ UNCHANGED <<graph, now, rlock, listeners, master, handlers, arg, exitCode,
                   changes, epochStart>>
    /\ UNCHANGED <<lastEv, gotMaster>>
    /\ UNCHANGED <<evars, cvars>>

\* forwarder.go:66  t.graph.AddEventListener(t)
OnNewMaster_AddEventListener ==
    /\ pc = "resynced"
    /\ listeners' = AddEventListener(listeners)
    /\ pc' = "listening"
    /\ UNCHANGED <<graph, now, rlock, master, handlers, arg, exitCode, sent,
                   changes, epochStart, snapClock>>
    /\ UNCHANGED <<lastEv, gotMaster>>
    /\ UNCHANGED <<evars, cvars>>

\* OnNewMaster as it would be if it returned without releasing the lock.
OnNewMaster_NoRUnlock ==
    /\ pc = "listening"
    /\ pc' = "idle"
    /\ UNCHANGED <<graph, now, rlock, listeners, master, handlers, arg, exitCode,
                   sent, changes, epochStart, snapClock>>
    /\ UNCHANGED <<lastEv, gotMaster>>
    /\ UNCHANGED <<evars, cvars>>

\* forwarder.go:68  t.graph.RUnlock()
OnNewMaster_RUnlock ==
    /\ pc = "listening"
    /\ rlock' = rlock - 1
    /\ pc' = "idle"
    /\ UNCHANGED <<graph, now, listeners, master, handlers, arg, exitCode, sent,
                   changes, epochStart, snapClock>>
    /\ UNCHANGED <<lastEv, gotMaster>>
    /\ UNCHANGED <<evars, cvars>>

\* ---------------------------------------------------------- the election
\* MasterElection (client.go:47-54) is an interface; the elector behind it
\* follows the design document: every contender tries, at a fixed period
\* shorter than half the TTL, to acquire the ElectionKey with an atomic
\* create-if-absent-or-expired, or to renew it when it owns it.
Contenders == {"c1", "c2"}
None == "none"

\* MasterElection.TTL(): the lease duration, in ticks.
TTL == 3
\* The period of the acquire/renew attempts: the longest below TTL/2.
Interval == (TTL - 1) \div 2
\* Time explored.
MaxTime == 6

\* The key is valid while its TTL has not run out.
LeaseValid == lease.owner # None /\ lease.expires > eclock

\* The key as it would be if the store never expired it.
LeaseFree_NeverExpires == lease.owner = None

\* The key can be created: it is absent or expired.
LeaseFree == ~LeaseValid

\* The store as it would be if creation did not check for an owner.
StoreGrants_Always(c) == TRUE

\* The store's answer to contender c's atomic acquire-or-renew.
StoreGrants(c) == LeaseFree \/ lease.owner = c

\* MasterElection.IsMaster()
IsMaster(c) == role[c] = "Master"

\* The listeners registered with each elector (AddEventListener).
Listeners == {"l1", "l2"}
\* Connection losses explored.
MaxFaults == 1

NoCallback == "none"
MasterCallbacks == {"OnStartAsMaster", "OnSwitchToMaster"}
SlaveCallbacks == {"OnStartAsSlave", "OnSwitchToSlave"}

\* The elector as it would be if it reported every attempt's outcome, not
\* only the changes of role.
RoleCallback_EveryAttempt(old, new, ever) ==
    IF new = "Master"
       THEN (IF ever THEN "OnSwitchToMaster" ELSE "OnStartAsMaster")
       ELSE (IF old = "Master" THEN "OnSwitchToSlave" ELSE "OnStartAsSlave")

\* The elector as it would be if it told a first mastership from a regained
\* one by the previous role instead of by the history.
RoleCallback_ByPreviousRole(old, new, ever) ==
    IF new = old THEN NoCallback
    ELSE IF new = "Master"
       THEN (IF old = "Slave" THEN "OnSwitchToMaster" ELSE "OnStartAsMaster")
       ELSE (IF old = "Master" THEN "OnSwitchToSlave" ELSE "OnStartAsSlave")

\* The MasterElectionListener method fired when the role goes from old to
\* new; ever tells whether the process has been Master before.
RoleCallback(old, new, ever) ==
    IF new = old THEN NoCallback
    ELSE IF new = "Master"
       THEN (IF ever THEN "OnSwitchToMaster" ELSE "OnStartAsMaster")
       ELSE (IF old = "Master" THEN "OnSwitchToSlave" ELSE "OnStartAsSlave")

\* Contender c takes role new: every listener is called once if, and only
\* if, the role changes.
SetRole(c, new) ==
    /\ role' = [role EXCEPT ![c] = new]
    /\ everMaster' = [everMaster EXCEPT ![c] = @ \/ new = "Master"]
    /\ cbs' = IF RoleCallback(role[c], new, everMaster[c]) = NoCallback THEN cbs
              ELSE [cbs EXCEPT ![c] =
                      [l \in Listeners |->
                          Append(@[l], RoleCallback(role[c], new, everMaster[c]))]]

\* MasterElection.Start(): begin contending; the first attempt is immediate.
Start(c) ==
    /\ running[c] = "new"
    /\ running' = [running EXCEPT ![c] = "started"]
    /\ nextTry' = [nextTry EXCEPT ![c] = eclock]
    /\ since' = eclock
    /\ UNCHANGED <<eclock, lease, role, reachable, everMaster, inflight, cbs, stops, faults>>
    /\ UNCHANGED <<fvars, cvars>>

\* One periodic attempt of contender c that reaches the store: the store
\* creates or renews the key, or refuses.
Attempt(c) ==
    /\ running[c] = "started"
    /\ nextTry[c] = eclock
    /\ inflight[c] = "none"
    /\ reachable[c]
    /\ IF StoreGrants(c)
          THEN /\ lease' = [owner |-> c, expires |-> eclock + TTL]
               /\ inflight' = [inflight EXCEPT ![c] = "granted"]
          ELSE /\ inflight' = [inflight EXCEPT ![c] = "denied"]
               /\ UNCHANGED lease
    /\ nextTry' = [nextTry EXCEPT ![c] = eclock + Interval]
    /\ UNCHANGED <<eclock, role, running, reachable, since, everMaster, cbs, stops, faults>>
    /\ UNCHANGED <<fvars, cvars>>

\* One periodic attempt that fails to reach the store.
AttemptFails(c) ==
    /\ running[c] = "started"
    /\ nextTry[c] = eclock
    /\ inflight[c] = "none"
    /\ ~reachable[c]
    /\ inflight' = [inflight EXCEPT ![c] = "failed"]
    /\ nextTry' = [nextTry EXCEPT ![c] = eclock + Interval]
    /\ UNCHANGED <<eclock, lease, role, running, reachable, since, everMaster,
                   cbs, stops, faults>>
    /\ UNCHANGED <<fvars, cvars>>

\* The elector as it would be if an attempt in flight during Stop() still
\* applied its outcome.
Complete_IgnoresStop(c) ==
    /\ inflight[c] # "none"
    /\ inflight' = [inflight EXCEPT ![c] = "none"]
    /\ SetRole(c, CASE inflight[c] = "granted" -> "Master"
                    [] inflight[c] = "denied" -> "Slave"
                    [] OTHER -> IF role[c] = "Master" THEN "Slave" ELSE role[c])
    /\ UNCHANGED <<eclock, lease, running, reachable, nextTry, since, stops, faults>>
    /\ UNCHANGED <<fvars, cvars>>

\* The elector handles the outcome of its attempt: granted makes it Master,
\* refused makes it Slave, and a Master that could not renew is demoted;
\* nothing is reported to the caller.  After Stop() the outcome is dropped.
Complete(c) ==
    /\ inflight[c] # "none"
    /\ inflight' = [inflight EXCEPT ![c] = "none"]
    /\ SetRole(c, CASE running[c] = "stopped" -> role[c]
                    [] inflight[c] = "granted" -> "Master"
                    [] inflight[c] = "denied" -> "Slave"
                    [] OTHER -> IF role[c] = "Master" THEN "Slave" ELSE role[c])
    /\ UNCHANGED <<eclock, lease, running, reachable, nextTry, since, stops, faults>>
    /\ UNCHANGED <<fvars, cvars>>

\* MasterElection.Stop(): release the lease if held, give up mastership and
\* stop contending; it may run while an attempt is in flight.
Stop(c) ==
    /\ running[c] = "started"
    /\ running' = [running EXCEPT ![c] = "stopped"]
    /\ SetRole(c, IF role[c] = "Master" THEN "Slave" ELSE role[c])
    /\ lease' = IF lease.owner = c /\ reachable[c]
                   THEN [owner |-> None, expires |-> 0] ELSE lease
    /\ since' = eclock
    /\ UNCHANGED <<eclock, reachable, nextTry, inflight, stops, faults>>
    /\ UNCHANGED <<fvars, cvars>>

\* MasterElection.Stop() on an elector that is already stopped.
StopAgain(c) ==
    /\ running[c] = "stopped"
    /\ stops' = [stops EXCEPT ![c] = TRUE]
    /\ UNCHANGED <<eclock, lease, role, running, reachable, nextTry, since,
                   everMaster, inflight, cbs, faults>>
    /\ UNCHANGED <<fvars, cvars>>

\* A contender loses or regains its connection to the store.
Disconnect(c) ==
    /\ reachable[c]
    /\ faults < MaxFaults
    /\ faults' = faults + 1
    /\ reachable' = [reachable EXCEPT ![c] = FALSE]
    /\ since' = eclock
    /\ UNCHANGED <<eclock, lease, role, running, nextTry, everMaster, inflight,
                   cbs, stops>>
    /\ UNCHANGED <<fvars, cvars>>

Reconnect(c) ==
    /\ ~reachable[c]
    /\ reachable' = [reachable EXCEPT ![c] = TRUE]
    /\ since' = eclock
    /\ UNCHANGED <<eclock, lease, role, running, nextTry, everMaster, inflight,
                   cbs, stops, faults>>
    /\ UNCHANGED <<fvars, cvars>>

\* Time passes once every attempt that is due has been made and handled.
Tick ==
    /\ eclock < MaxTime
    /\ \A c \in Contenders : running[c] = "started" => nextTry[c] > eclock
    /\ \A c \in Contenders : inflight[c] = "none"
    /\ eclock' = eclock + 1
    /\ UNCHANGED <<lease, role, running, reachable, nextTry, since, everMaster,
                   inflight, cbs, stops, faults>>
    /\ UNCHANGED <<fvars, cvars>>

ElectionInit ==
    /\ eclock = 0
    /\ lease = [owner |-> None, expires |-> 0]
    /\ role = [c \in Contenders |-> "unset"]
    /\ running = [c \in Contenders |-> "new"]
    /\ reachable = [c \in Contenders |-> TRUE]
    /\ nextTry = [c \in Contenders |-> 0]
    /\ since = 0
    /\ everMaster = [c \in Contenders |-> FALSE]
    /\ inflight = [c \in Contenders |-> "none"]
    /\ cbs = [c \in Contenders |-> [l \in Listeners |-> <<>>]]
    /\ stops = [c \in Contenders |-> FALSE]
    /\ faults = 0

\* ------------------------------------------------------------ etcd client
\* The one client of the model and the keys it touches.
ClientId == "a"
StartKey == <<"/client:", ClientId, "/start-time">>
Keys == {StartKey, <<"/k">>}
NoKey == <<"no key">>
\* The last second of the clock that is told apart.
MaxUnix == 11

\* Strings are sequences of characters.
DigitChars == <<"0", "1", "2", "3", "4", "5", "6", "7", "8", "9">>
IsDigit(ch) == \E d \in 1..Len(DigitChars) : DigitChars[d] = ch
DigitOf(ch) == (CHOOSE d \in 1..Len(DigitChars) : DigitChars[d] = ch) - 1

RECURSIVE Digits(_)
Digits(n) ==
    IF n < Len(DigitChars) THEN <<DigitChars[n + 1]>>
    ELSE Append(Digits(n \div Len(DigitChars)), DigitChars[(n % Len(DigitChars)) + 1])

\* strconv.FormatInt(value, 10)
FormatInt(value) == IF value < 0 THEN <<"-">> \o Digits(0 - value) ELSE Digits(value)

RECURSIVE DigitsValue(_)
DigitsValue(ds) ==
    IF ds = <<>> THEN 0
    ELSE Len(DigitChars) * DigitsValue(SubSeq(ds, 1, Len(ds) - 1)) + DigitOf(ds[Len(ds)])

\* strconv.ParseInt(s, 10, 64): an optional sign, then one or more digits.
ParseInt(str) ==
    LET signed == str # <<>> /\ str[1] \in {"+", "-"}
        body == IF signed THEN Tail(str) ELSE str
    IN  IF body = <<>> \/ \E i \in 1..Len(body) : ~IsDigit(body[i])
           THEN [val |-> 0, err |-> "ErrSyntax"]
           ELSE [val |-> IF signed /\ str[1] = "-" THEN 0 - DigitsValue(body)
                                                    ELSE DigitsValue(body),
                 err |-> Nil]

\* Values other writers may leave under a key, and integers callers write.
RawValues == { <<>>, <<"7">>, <<"-", "1", "2">>, <<"+", "3">>, <<"0", "7">>,
               <<"1", "x">>, <<"-">>, <<"1", "0", "5">> }
IntValues == {0 - 12, 0, 7, 105}

\* client.KeysAPI.Get(ctx, key, nil)
KeysAPI_Get(key) ==
    IF ~storeUp THEN [value |-> NoKey, err |-> "ErrUnreachable"]
    ELSE IF kv[key] = NoKey THEN [value |-> NoKey, err |-> "ErrKeyNotFound"]
    ELSE [value |-> kv[key], err |-> Nil]

\* client.KeysAPI.Set(ctx, key, value, nil)
KeysAPI_Set(key, value) ==
    IF ~storeUp THEN [kv |-> kv, err |-> "ErrUnreachable"]
    ELSE [kv |-> [kv EXCEPT ![key] = value], err |-> Nil]

\* Client.SetInt64(key, value)
SetInt64(key, value) == KeysAPI_Set(key, FormatInt(value))

\* GetInt64 as it would be if it asked the store again after a failed get.
GetInt64_Retries(key) ==
    /\ op' = "GetInt64"
    /\ requests' = IF KeysAPI_Get(key).err # Nil THEN 2 ELSE 1
    /\ got' = IF KeysAPI_Get(key).err # Nil
                 THEN [key |-> key, val |-> 0, err |-> KeysAPI_Get(key).err]
                 ELSE [key |-> key, val |-> ParseInt(KeysAPI_Get(key).value).val,
                       err |-> ParseInt(KeysAPI_Get(key).value).err]
    /\ UNCHANGED <<storeUp, kv, cpc, unix, accepted>>
    /\ UNCHANGED <<fvars, evars>>

\* Client.GetInt64(key): one get; its error, or the parse of the value.
GetInt64(key) ==
    /\ op' = "GetInt64"
    /\ requests' = 1
    /\ got' = IF KeysAPI_Get(key).err # Nil
                 THEN [key |-> key, val |-> 0, err |-> KeysAPI_Get(key).err]
                 ELSE [key |-> key, val |-> ParseInt(KeysAPI_Get(key).value).val,
                       err |-> ParseInt(KeysAPI_Get(key).value).err]
    /\ UNCHANGED <<storeUp, kv, cpc, unix, accepted>>
    /\ UNCHANGED <<fvars, evars>>

\* A caller of Client.SetInt64.
CallSetInt64(key, value) ==
    /\ op' = "SetInt64"
    /\ requests' = 1
    /\ kv' = SetInt64(key, value).kv
    /\ UNCHANGED <<storeUp, cpc, unix, got, accepted>>
    /\ UNCHANGED <<fvars, evars>>

\* Client.Start is called.
ClientStart_Call ==
    /\ cpc = "init"
    /\ cpc' = "loop"
    /\ op' = "Start"
    /\ UNCHANGED <<storeUp, kv, unix, requests, got, accepted>>
    /\ UNCHANGED <<fvars, evars>>

\* Start as it would be if it gave up after a failed write.
ClientStart_SetInt64_GivesUp ==
    /\ cpc = "loop"
    /\ op' = "Start"
    /\ kv' = SetInt64(StartKey, unix).kv
    /\ accepted' = (accepted \/ SetInt64(StartKey, unix).err = Nil)
    /\ cpc' = "returned"
    /\ UNCHANGED <<storeUp, unix, requests, got>>
    /\ UNCHANGED <<fvars, evars>>

\* One turn of Start's loop: SetInt64 of the start time; break if it was
\* accepted, log and sleep otherwise.
ClientStart_SetInt64 ==
    /\ cpc = "loop"
    /\ op' = "Start"
    /\ kv' = SetInt64(StartKey, unix).kv
    /\ accepted' = (accepted \/ SetInt64(StartKey, unix).err = Nil)
    /\ cpc' = IF SetInt64(StartKey, unix).err # Nil THEN "sleep" ELSE "returned"
    /\ UNCHANGED <<storeUp, unix, requests, got>>
    /\ UNCHANGED <<fvars, evars>>

\* time.Sleep(time.Second), then the next turn of the loop.
ClientStart_Sleep ==
    /\ cpc = "sleep"
    /\ op' = "Start"
    /\ unix' = IF unix < MaxUnix THEN unix + 1 ELSE unix
    /\ cpc' = "loop"
    /\ UNCHANGED <<storeUp, kv, requests, got, accepted>>
    /\ UNCHANGED <<fvars, evars>>

\* The store becomes unreachable, or reachable again.
StoreFails ==
    /\ storeUp
    /\ storeUp' = FALSE
    /\ op' = "store"
    /\ UNCHANGED <<kv, cpc, unix, requests, got, accepted>>
    /\ UNCHANGED <<fvars, evars>>

StoreRecovers ==
    /\ ~storeUp
    /\ storeUp' = TRUE
    /\ op' = "store"
    /\ UNCHANGED <<kv, cpc, unix, requests, got, accepted>>
    /\ UNCHANGED <<fvars, evars>>

\* Another user of the store writes or deletes a key.
ExternalPut(key, value) ==
    /\ key # StartKey
    /\ kv' = [kv EXCEPT ![key] = value]
    /\ op' = "store"
    /\ UNCHANGED <<storeUp, cpc, unix, requests, got, accepted>>
    /\ UNCHANGED <<fvars, evars>>

ClientInit ==
    /\ storeUp \in BOOLEAN
    /\ kv = [k \in Keys |-> NoKey]
    /\ cpc = "init"
    /\ unix = 9
    /\ op = "none"
    /\ requests = 0
    /\ got = [key |-> Nil, val |-> 0, err |-> Nil]
    /\ accepted = FALSE

\* ------------------------------------------------------------ behaviours
\* Graphs the Forwarder may be bound to at construction.
Old == [st |-> "present", rev |-> 1, at |-> 0]
InitialGraphs ==
    { [i \in Ids |-> Absent],
      [i \in Ids |-> IF i = "n1" THEN Old ELSE Absent],
      [i \in Ids |-> Old] }

ForwarderInit ==
    /\ graph \in InitialGraphs
    /\ now = 0
    /\ rlock = 0
    /\ listeners = NewForwarder.graphListeners
    /\ handlers = NewForwarder.electionHandlers
    /\ master = Nil
    /\ pc = "idle"
    /\ arg = Nil
    /\ exitCode = -1
    /\ sent = <<>>
    /\ changes = 0
    /\ epochStart = 0
    /\ snapClock = 0
    /\ lastEv = [kind |-> "none", id |-> Nil, ops |-> <<>>]
    /\ gotMaster = Nil

Init == ForwarderInit /\ ElectionInit /\ ClientInit /\ storeUp

Next ==
    \/ \E i \in NodeIds : AddNode(i)
    \/ \E i \in NodeIds, ops \in OpsChoices : UpdateNode(i, ops)
    \/ \E i \in NodeIds : DelNode(i)
    \/ \E i \in EdgeIds : AddEdge(i)
    \/ \E i \in EdgeIds, ops \in OpsChoices : UpdateEdge(i, ops)
    \/ \E i \in EdgeIds : DelEdge(i)
    \/ \E c \in Peers \cup {Nil} : MasterChanged(c)
    \/ GetMaster
    \/ OnNewMaster_RemoveEventListener
    \/ OnNewMaster_Exit
    \/ OnNewMaster_RLock
    \/ OnNewMaster_triggerResync
    \/ OnNewMaster_AddEventListener
    \/ OnNewMaster_RUnlock

Spec == Init /\ [][Next]_vars

\* The election on its own, beside a Forwarder that is left alone.
InitElection ==
    /\ ForwarderInit
    /\ \A i \in Ids : graph[i] = Absent
    /\ ElectionInit
    /\ ClientInit /\ storeUp

NextElection ==
    \/ \E c \in Contenders : Start(c)
    \/ \E c \in Contenders : Attempt(c)
    \/ \E c \in Contenders : AttemptFails(c)
    \/ \E c \in Contenders : Complete(c)
    \/ \E c \in Contenders : Stop(c)
    \/ \E c \in Contenders : StopAgain(c)
    \/ \E c \in Contenders : Disconnect(c)
    \/ \E c \in Contenders : Reconnect(c)
    \/ Tick

SpecElection == InitElection /\ [][NextElection]_vars

\* The etcd client on its own, beside a Forwarder and an election left alone.
InitClient ==
    /\ ForwarderInit
    /\ \A i \in Ids : graph[i] = Absent
    /\ ElectionInit
    /\ ClientInit

NextClient ==
    \/ ClientStart_Call
    \/ ClientStart_SetInt64
    \/ ClientStart_Sleep
    \/ \E key \in Keys : GetInt64(key)
    \/ \E key \in Keys, value \in IntValues : CallSetInt64(key, value)
    \/ \E key \in Keys, value \in RawValues \cup {NoKey} : ExternalPut(key, value)
    \/ StoreFails
    \/ StoreRecovers

SpecClient == InitClient /\ [][NextClient]_vars

\* Start runs on its own goroutine: a turn of its loop that can be taken is
\* taken, and a sleep ends.
SpecClientFair ==
    SpecClient /\ WF_vars(ClientStart_SetInt64) /\ WF_vars(ClientStart_Sleep)

\* ------------------------------------------------------------ vocabulary
\* of the properties
IsDelta(m) == m.type \in DeltaTypes
IsSync(m) == m.type = SyncMsgType

\* Every element of the graph, nodes and edges together.
AllElements(g) == Elements(g).Nodes \cup Elements(g).Edges

\* Positions in sent of the snapshots handed to peer p, and the last of them.
SyncsTo(p) == {j \in 1..Len(sent) : sent[j].to = p /\ IsSync(sent[j])}
LastSyncTo(p) == CHOOSE j \in SyncsTo(p) : \A k \in SyncsTo(p) : k <= j

\* OnNewMaster(master) has sent its snapshot to the current master.
Resynced == master # Nil /\ pc \in {"resynced", "listening", "idle"}

\* Synced state of the design: a master is known, the resync is over and the
\* Forwarder listens to the graph.
Synced == master # Nil /\ pc = "idle" /\ listeners > 0

\* What a peer holds after applying, in order, the messages it was sent: a
\* snapshot replaces its view, a delta changes one element of it.
ApplyMsg(view, m) ==
    CASE IsSync(m) -> m.payload.Elements.Nodes \cup m.payload.Elements.Edges
      [] m.type \in {NodeAddedMsgType, EdgeAddedMsgType} ->
            {e \in view : e.ID # m.payload.ID} \cup {m.payload}
      [] m.type \in {NodeDeletedMsgType, EdgeDeletedMsgType} ->
            {e \in view : e.ID # m.payload.ID}
      [] OTHER ->
            {IF e.ID = m.payload.ID
                THEN [e EXCEPT !.Revision = m.payload.Revision,
                               !.UpdatedAt = m.payload.UpdatedAt]
                ELSE e : e \in view}

RECURSIVE ReplicaFrom(_, _, _)
ReplicaFrom(p, j, view) ==
    IF j > Len(sent) THEN view
    ELSE ReplicaFrom(p, j + 1,
                     IF sent[j].to = p THEN ApplyMsg(view, sent[j]) ELSE view)

Replica(p) == ReplicaFrom(p, 1, {})

\* The mutation applied at graph time t reached the current master: it is in
\* the snapshot of the last resync, or a delta for it followed that snapshot.
Covered(t) ==
    \/ t <= snapClock
    \/ \E j \in (LastSyncTo(master) + 1)..Len(sent) :
          /\ sent[j].to = master
          /\ IsDelta(sent[j])
          /\ sent[j].payload.UpdatedAt = t

\* ------------------------------------------------------------------- C1
\* C1: no event gap across resync.  Once OnNewMaster(P) has sent its
\* snapshot, every mutation applied so far is either reflected in that
\* snapshot or was followed by a delta to P; no mutation completes between
\* the snapshot capture and the listener registration; so the view P builds
\* from its messages is the graph.
C1_NoEventGap ==
    /\ Resynced => \A t \in 1..now : Covered(t)
    /\ pc = "resynced" => now = snapClock
    /\ Resynced => Replica(master) = AllElements(graph)

\* A mutation ran between the master change and the snapshot, and another
\* after the resync.
C1_Witness ==
    /\ pc = "idle" /\ master # Nil /\ changes = 2
    /\ \E j \in (epochStart + 1)..(LastSyncTo(master) - 1) : IsDelta(sent[j])
    /\ now > snapClock

\* ------------------------------------------------------------------- C2
\* C2: after a master change the first message handed to the new master is
\* a SyncMsg; no delta precedes it.
C2_SyncFirst ==
    (master # Nil /\ Len(sent) > epochStart) => IsSync(sent[epochStart + 1])

\* ------------------------------------------------------------------- C3
\* C3: while Synced, a graph mutation sends exactly one message, a delta, to
\* the current master, after any sequence of master changes.
C3_ExactlyOnce ==
    [][(Synced /\ now' = now + 1) =>
          /\ Len(sent') = Len(sent) + 1
          /\ sent'[Len(sent')].to = master
          /\ IsDelta(sent'[Len(sent')])]_vars

\* ------------------------------------------------------------------- C4
\* C4: during a resync the Forwarder has stopped listening until the
\* snapshot is sent, and it is never registered more than once.
C4_StopsListeningFirst ==
    /\ pc \in {"rlocked", "resynced"} => listeners = 0
    /\ listeners <= 1

\* ------------------------------------------------------------------- C5
\* C5: on OnNewMaster(nil) the Forwarder is no longer a graph listener, no
\* master is known, nothing (no SyncMsg, no delta) is sent from the master
\* loss on, and the process exits with a non-zero status.
C5_MasterLost ==
    pc \in {"removed", "exited"} =>
        /\ listeners = 0
        /\ master = Nil
        /\ Len(sent) = epochStart
        /\ pc = "exited" => exitCode > 0

\* ------------------------------------------------------------------- C6
\* C6: for every element and every peer, the Revisions of the deltas sent
\* to that peer for that element are strictly increasing.
C6_RevisionMonotonic ==
    \A j, k \in 1..Len(sent) :
        (/\ j < k
         /\ IsDelta(sent[j]) /\ IsDelta(sent[k])
         /\ sent[j].to = sent[k].to
         /\ sent[j].payload.ID = sent[k].payload.ID)
        => sent[j].payload.Revision < sent[k].payload.Revision

\* ------------------------------------------------------------------- C7
\* C7: each OnNewMaster(P) with P non-nil sends exactly one SyncMsg, to P,
\* holding every node and edge of the graph at that moment; an element
\* added later reaches P as an Added delta after the SyncMsg.
C7_OneFullSync ==
    /\ Cardinality({j \in 1..Len(sent) : IsSync(sent[j])})
          = IF pc \in {"entry", "rlocked"} /\ arg # Nil THEN changes - 1 ELSE changes
    /\ pc = "resynced" =>
          /\ Len(sent) > 0
          /\ IsSync(sent[Len(sent)])
          /\ sent[Len(sent)].to = arg
          /\ \A i \in Ids :
                graph[i].st = "present" <=>
                   \E e \in ApplyMsg({}, sent[Len(sent)]) :
                       e.ID = i /\ e.Revision = graph[i].rev
    /\ Resynced =>
          \A i \in Ids :
             (graph[i].st = "present" /\ graph[i].rev = 1 /\ graph[i].at > snapClock)
             => \E j \in (LastSyncTo(master) + 1)..Len(sent) :
                   /\ sent[j].type \in {NodeAddedMsgType, EdgeAddedMsgType}
                   /\ sent[j].to = master
                   /\ sent[j].payload.ID = i

\* The graph held nodes and an edge when the snapshot was taken, and a node
\* was added after the resync.
C7_Witness ==
    /\ Resynced /\ pc = "idle"
    /\ Cardinality(sent[LastSyncTo(master)].payload.Elements.Nodes) >= 1
    /\ \E i \in NodeIds : graph[i].st = "present" /\ graph[i].rev = 1
                          /\ graph[i].at > snapClock

\* ------------------------------------------------------------------- C8
\* C8: until the first OnNewMaster(P) with P non-nil the Forwarder is not a
\* graph listener and has sent nothing, whatever the graph does; it is
\* registered with the election only.
C8_UnsyncedSilent ==
    changes = 0 => listeners = 0 /\ sent = <<>> /\ handlers = 1

\* Mutations were applied while no master had been announced.
C8_Witness == changes = 0 /\ now >= 2 /\ pc = "idle"

\* ------------------------------------------------------------------- C9
\* Both contenders are started and reach the store, and each has made an
\* attempt since the last change.
Settled ==
    /\ \A c \in Contenders : running[c] = "started" /\ reachable[c]
                             /\ nextTry[c] > eclock /\ inflight[c] = "none"
    /\ eclock >= since + Interval

\* C9: at every instant at most one contender on the ElectionKey observes
\* IsMaster() = true, and once two started contenders that reach the store
\* have settled exactly one does.
C9_SingleMaster ==
    /\ Cardinality({c \in Contenders : IsMaster(c)}) <= 1
    /\ Settled => Cardinality({c \in Contenders : IsMaster(c)}) = 1

\* Two settled contenders, after the mastership has changed hands.
C9_Witness ==
    /\ Settled
    /\ \E c \in Contenders : everMaster[c] /\ role[c] = "Slave"

\* ------------------------------------------------------------------ C10
\* Contender c is started and is the only one that reaches the store.
Alone(c) ==
    /\ running[c] = "started" /\ reachable[c]
    /\ \A d \in Contenders \ {c} : ~reachable[d]

\* C10: a contender that has been the only one reaching the store for two
\* TTL intervals is Master.
C10_EventualLeadership ==
    \A c \in Contenders : (Alone(c) /\ eclock >= since + 2 * TTL) => IsMaster(c)

\* The survivor took over from an owner that lost its connection.
C10_Witness ==
    \E c \in Contenders :
        /\ Alone(c) /\ eclock >= since + 2 * TTL /\ IsMaster(c)
        /\ \E d \in Contenders \ {c} :
              everMaster[d] /\ role[d] = "Slave" /\ running[d] = "started"


\* -------------------------------------------------- elector callbacks (C11..C13)
IsPrefix(p, q) == Len(p) <= Len(q) /\ SubSeq(q, 1, Len(p)) = p

Alternates(log) ==
    \A i \in 1..(Len(log) - 1) :
        (log[i] \in MasterCallbacks) # (log[i + 1] \in MasterCallbacks)

NeverMaster(log) == \A i \in 1..Len(log) : log[i] \notin MasterCallbacks

\* C11: role transitions are edge-triggered and delivered exactly once per
\* change: in every step, each registered listener of a contender receives
\* exactly one more callback if the contender's role changes and none if it
\* does not (a successful renewal included); what it received before is kept
\* in order, the new callback is of the type of the new role, and no listener
\* ever holds two consecutive master-type or two consecutive slave-type
\* callbacks.
C11_EdgeTriggered ==
    [][\A c \in Contenders : \A l \in Listeners :
          /\ role'[c] = role[c] => cbs'[c][l] = cbs[c][l]
          /\ role'[c] # role[c] =>
                /\ Len(cbs'[c][l]) = Len(cbs[c][l]) + 1
                /\ IsPrefix(cbs[c][l], cbs'[c][l])
                /\ (cbs'[c][l][Len(cbs'[c][l])] \in MasterCallbacks)
                      <=> (role'[c] = "Master")
          /\ Alternates(cbs'[c][l])]_vars

\* A contender that started alone, became Master and has renewed its lease
\* since: its listeners hold the one callback of the one change.
C11_Witness ==
    \E c \in Contenders :
        /\ role[c] = "Master" /\ inflight[c] = "none" /\ faults = 0
        /\ \A d \in Contenders \ {c} : running[d] = "new"
        /\ lease.owner = c /\ lease.expires - TTL > since
        /\ \A l \in Listeners : cbs[c][l] = <<"OnStartAsMaster">>

\* C12: the elector's transition rules.  A granted attempt of a contender
\* that is Slave or unset fires OnStartAsMaster if its listeners never saw a
\* master-type callback and OnSwitchToMaster otherwise; a Master that leaves
\* mastership (failed or refused renewal, or Stop) fires OnSwitchToSlave; an
\* unset contender that is refused fires OnStartAsSlave; and handling a
\* failed attempt changes at most the role: the elector keeps running with
\* its next attempt scheduled.
C12_TransitionRules ==
    [][\A c \in Contenders : \A l \in Listeners :
          /\ (role[c] # "Master" /\ role'[c] = "Master") =>
                /\ inflight[c] = "granted"
                /\ cbs'[c][l] = Append(cbs[c][l],
                                   IF NeverMaster(cbs[c][l]) THEN "OnStartAsMaster"
                                                             ELSE "OnSwitchToMaster")
          /\ (role[c] = "Master" /\ role'[c] # "Master") =>
                /\ role'[c] = "Slave"
                /\ inflight[c] \in {"failed", "denied"} \/ running'[c] = "stopped"
                /\ cbs'[c][l] = Append(cbs[c][l], "OnSwitchToSlave")
          /\ (role[c] = "unset" /\ role'[c] = "Slave") =>
                /\ inflight[c] = "denied"
                /\ cbs'[c][l] = Append(cbs[c][l], "OnStartAsSlave")
          /\ (inflight[c] = "granted" /\ inflight'[c] = "none"
                 /\ running[c] = "started") => role'[c] = "Master"
          /\ (inflight[c] = "failed" /\ inflight'[c] = "none") =>
                /\ running'[c] = running[c]
                /\ nextTry'[c] = nextTry[c]
                /\ running[c] = "started" => nextTry[c] > eclock
                /\ role'[c] = IF role[c] = "Master" /\ running[c] = "started"
                                 THEN "Slave" ELSE role[c]]_vars

\* All four callbacks have fired: one contender started as Master, lost the
\* lease and regained it, the other started as Slave, took over and stopped.
C12_Witness ==
    \E c \in Contenders : \E d \in Contenders \ {c} : \A l \in Listeners :
        /\ cbs[c][l] = <<"OnStartAsMaster", "OnSwitchToSlave", "OnSwitchToMaster">>
        /\ cbs[d][l] = <<"OnStartAsSlave", "OnStartAsMaster", "OnSwitchToSlave">>

C14_StartBlocksUntilAccepted ==
    /\ [](cpc \in {"init", "loop", "sleep", "returned"})
    /\ [](cpc = "returned" => accepted)
    /\ [][/\ (cpc = "loop" /\ cpc' # cpc) =>
                IF storeUp
                   THEN cpc' = "returned" /\ kv'[StartKey] = FormatInt(unix)
                   ELSE cpc' = "sleep" /\ kv' = kv /\ ~accepted'
          /\ (cpc = "sleep" /\ cpc' # cpc) => cpc' = "loop"
          /\ cpc = "returned" => cpc' = "returned"
          /\ cpc' = "returned" => (cpc = "returned" \/ (cpc = "loop" /\ storeUp))]_vars
    /\ (<>[](storeUp /\ cpc # "init")) => <>(cpc = "returned")

\* Start has returned after at least one failed write and one sleep: the
\* key holds the second at which the store took the write.
C14_Witness ==
    /\ cpc = "returned" /\ accepted
    /\ unix > 9
    /\ kv[StartKey] = FormatInt(unix)

\* What a stored string denotes, told without ParseInt: the integer whose
\* decimal form it is, the two non-canonical numerals of RawValues, or
\* nothing.
Numerals == IntValues \cup (0..MaxUnix)
Denotes(str, n) ==
    \/ n \in Numerals /\ FormatInt(n) = str
    \/ n = 3 /\ str = <<"+", "3">>
    \/ n = 7 /\ str = <<"0", "7">>
IsBase10(str) == \E n \in Numerals : Denotes(str, n)

\* C17: a GetInt64 call makes exactly one request and writes nothing; it
\* returns the store's error when the get fails (store unreachable or key
\* missing), a parse error when the stored value is not a base-10 integer,
\* and the integer otherwise.
C17_GetInt64Errors ==
    [][(op' = "GetInt64" /\ cvars' # cvars) =>
          /\ kv' = kv /\ storeUp' = storeUp
          /\ requests' = 1
          /\ got'.key \in Keys
          /\ ~storeUp => got'.err = "ErrUnreachable" /\ got'.val = 0
          /\ (storeUp /\ kv[got'.key] = NoKey) =>
                got'.err = "ErrKeyNotFound" /\ got'.val = 0
          /\ (storeUp /\ kv[got'.key] # NoKey /\ ~IsBase10(kv[got'.key])) =>
                got'.err = "ErrSyntax" /\ got'.val = 0
          /\ (storeUp /\ IsBase10(kv[got'.key])) =>
                got'.err = Nil /\ Denotes(kv[got'.key], got'.val)]_vars

\* GetInt64 has just returned a parse error for a value that is not an
\* integer, after one request.
C17_Witness ==
    /\ op = "GetInt64" /\ requests = 1
    /\ storeUp /\ kv[<<"/k">>] = <<"1", "x">>
    /\ got = [key |-> <<"/k">>, val |-> 0, err |-> "ErrSyntax"]

\* ----------------------------------------------------- Forwarder (C15..C20)
Syncs == {j \in 1..Len(sent) : IsSync(sent[j])}
LastSync == CHOOSE j \in Syncs : \A k \in Syncs : k <= j

TypeOf(kind) ==
    CASE kind = "NodeAdded"   -> NodeAddedMsgType
      [] kind = "NodeDeleted" -> NodeDeletedMsgType
      [] kind = "NodeUpdated" -> NodePartiallyUpdatedMsgType
      [] kind = "EdgeAdded"   -> EdgeAddedMsgType
      [] kind = "EdgeDeleted" -> EdgeDeletedMsgType
      [] kind = "EdgeUpdated" -> EdgePartiallyUpdatedMsgType

PayloadOf(ev, g) ==
    CASE ev.kind \in {"NodeAdded", "NodeDeleted"} ->
            [ID |-> ev.id, Revision |-> g[ev.id].rev, UpdatedAt |-> g[ev.id].at]
      [] ev.kind \in {"EdgeAdded", "EdgeDeleted"} ->
            [ID |-> ev.id, Revision |-> g[ev.id].rev, UpdatedAt |-> g[ev.id].at,
             Parent |-> Parent(ev.id), Child |-> Child(ev.id)]
      [] ev.kind \in {"NodeUpdated", "EdgeUpdated"} ->
            [ID |-> ev.id, UpdatedAt |-> g[ev.id].at, Revision |-> g[ev.id].rev,
             Ops |-> ev.ops]

\* C16: event-to-message mapping.  In a step that mutates the graph while
\* the Forwarder is registered, the event is of the mutated element's kind,
\* and every message the step sends has the type the table gives for the
\* event and the stated payload: the full element for added and deleted,
\* {ID, UpdatedAt, Revision, ops} of the mutated element for partially
\* updated, with ops as the graph passed them; with a master at least one
\* message is sent.
C16_EventMapping ==
    [][(now' # now /\ listeners > 0) =>
          /\ lastEv'.id \in Ids /\ graph'[lastEv'.id] # graph[lastEv'.id]
          /\ (lastEv'.id \in NodeIds) <=>
                (lastEv'.kind \in {"NodeAdded", "NodeDeleted", "NodeUpdated"})
          /\ lastEv'.kind \in {"NodeAdded", "EdgeAdded"} <=>
                graph[lastEv'.id].st = "absent"
          /\ lastEv'.kind \in {"NodeDeleted", "EdgeDeleted"} <=>
                graph'[lastEv'.id].st = "deleted"
          /\ master # Nil => Len(sent') > Len(sent)
          /\ \A j \in (Len(sent) + 1)..Len(sent') :
                /\ sent'[j].type = TypeOf(lastEv'.kind)
                /\ sent'[j].payload = PayloadOf(lastEv', graph')]_vars

\* An edge update with two ops has just been forwarded as an
\* EdgePartiallyUpdated carrying them in order.
C16_Witness ==
    /\ lastEv.kind = "EdgeUpdated" /\ lastEv.ops = <<"Del", "Add">>
    /\ Len(sent) > 0
    /\ sent[Len(sent)].type = EdgePartiallyUpdatedMsgType
    /\ sent[Len(sent)].payload.Ops = <<"Del", "Add">>
    /\ sent[Len(sent)].payload.Revision = graph[lastEv.id].rev

\* C18: unregistering is serialized against mutation callbacks: a mutation
\* callback of the Forwarder runs (the graph is mutated while the Forwarder
\* is in the listener list) only when there is a master and the snapshot
\* for that master has been sent.
C18_NoStaleCallback ==
    [][(now' # now /\ listeners > 0) => Resynced]_vars

\* C19: the Forwarder only reads the graph.  A step that is not a mutation
\* of the graph (GetMaster and every step of OnNewMaster, the resync
\* included) leaves every element, Revision and UpdatedAt as they were; a
\* mutation step changes exactly the mutated element, by one Revision and
\* the new time, however many times the Forwarder's callbacks run in it, and
\* the callbacks leave the listener registration and the lock alone.
C19_ReadOnly ==
    [][/\ now' = now => graph' = graph
       /\ now' # now =>
             /\ \E i \in Ids :
                   /\ \A k \in Ids \ {i} : graph'[k] = graph[k]
                   /\ graph'[i].rev = graph[i].rev + 1
                   /\ graph'[i].at = now'
             /\ listeners' = listeners /\ rlock' = rlock
       /\ gotMaster' # gotMaster =>
             /\ gotMaster' = master
             /\ UNCHANGED <<graph, now, rlock, listeners, master, sent, pc>>]_vars

\* The Forwarder is registered twice, a node present from the start was
\* updated once and forwarded, and GetMaster returned the second master.
C19_Witness ==
    /\ pc = "idle" /\ listeners = 2
    /\ gotMaster = master /\ master # Nil
    /\ lastEv.kind = "NodeUpdated" /\ graph[lastEv.id].rev = 2
    /\ Len(sent) >= 2 /\ IsDelta(sent[Len(sent)]) /\ IsDelta(sent[Len(sent) - 1])

\* C20: lock balance in OnNewMaster.  The Forwarder holds the graph's read
\* lock exactly once between RLock and RUnlock of an OnNewMaster call with a
\* non-nil speaker, and not at all when no call is running, on entry, on the
\* nil branch, or after the exit.
C20_LockBalance ==
    /\ rlock \in {0, 1}
    /\ pc \in {"idle", "entry", "removed", "exited"} => rlock = 0
    /\ pc \in {"rlocked", "resynced", "listening"} => rlock = 1 /\ arg # Nil
    /\ arg = Nil => rlock = 0

\* Two OnNewMaster calls with non-nil speakers have returned and a mutation
\* went through after them.
C20_Witness ==
    /\ pc = "idle" /\ changes = 2 /\ rlock = 0
    /\ now > snapClock
=============================================================================
